---- MODULE Spec2Model ----
(***************************************************************************)
(* gke-upgrade-tool: model of src/gke_upgrade_tool/main.py.                *)
(*                                                                         *)
(* Strings are sequences of one-character strings, so that suffix tests,   *)
(* substring tests, upper-casing, concatenation and the plain string order *)
(* are computed character by character, as Python computes them.           *)
(* Python's None is the value Null.  A YAML document is a function from    *)
(* the keys it holds to their values.                                      *)
(***************************************************************************)
EXTENDS Integers, Sequences, FiniteSets, TLC

VARIABLES file, inv, runs, cat

vars == <<file, inv, runs, cat>>

----------------------------------------------------------------------------
(* Bounds of the model *)

\* number of invocations of the tool in one behaviour
MaxRuns == 2
\* number of entries of a feed handed to main
MaxFeed == 2
\* number of entries of a feed handed to latest_gke_version alone
MaxCatFeed == 3

----------------------------------------------------------------------------
(* Strings *)

\* Python None
Null == <<"None">>

\* Python code point order restricted to the characters the model uses
Ord(c) ==
    CASE c = "-" -> 45 [] c = "." -> 46
      [] c = "0" -> 48 [] c = "1" -> 49 [] c = "2" -> 50 [] c = "3" -> 51
      [] c = "4" -> 52 [] c = "5" -> 53 [] c = "6" -> 54 [] c = "7" -> 55
      [] c = "8" -> 56 [] c = "9" -> 57
      [] c = "A" -> 65 [] c = "B" -> 66 [] c = "C" -> 67
      [] c = "a" -> 97 [] c = "b" -> 98 [] c = "c" -> 99 [] c = "e" -> 101
      [] c = "g" -> 103 [] c = "k" -> 107 [] c = "x" -> 120
      [] OTHER -> 32

IsDigit(c) == c \in {"0", "1", "2", "3", "4", "5", "6", "7", "8", "9"}

\* str < str
RECURSIVE StrLess(_, _)
StrLess(s, t) ==
    IF t = <<>> THEN FALSE
    ELSE IF s = <<>> THEN TRUE
    ELSE IF s[1] # t[1] THEN Ord(s[1]) < Ord(t[1])
    ELSE StrLess(Tail(s), Tail(t))

\* s[i : i + Len(sub)] == sub
MatchAt(s, sub, i) ==
    /\ i + Len(sub) - 1 <= Len(s)
    /\ \A j \in 1..Len(sub) : s[i + j - 1] = sub[j]

\* sub in s
Contains(s, sub) == \E i \in 1..(Len(s) + 1) : MatchAt(s, sub, i)

\* s.endswith(suf)
EndsWith(s, suf) == Len(suf) <= Len(s) /\ MatchAt(s, suf, Len(s) - Len(suf) + 1)

\* s.replace(old, ""), old not empty: occurrences removed left to right
RECURSIVE Remove(_, _)
Remove(s, old) ==
    IF s = <<>> THEN <<>>
    ELSE (IF MatchAt(s, old, 1) THEN <<>> ELSE <<s[1]>>)
         \o Remove(SubSeq(s, (IF MatchAt(s, old, 1) THEN Len(old) ELSE 1) + 1, Len(s)), old)

UpperChar(c) ==
    CASE c = "a" -> "A" [] c = "b" -> "B" [] c = "c" -> "C" [] c = "e" -> "E"
      [] c = "g" -> "G" [] c = "k" -> "K" [] c = "x" -> "X"
      [] OTHER -> c

\* s.upper()
Upper(s) == [i \in 1..Len(s) |-> UpperChar(s[i])]

----------------------------------------------------------------------------
(* Names of the configuration *)

NODE_POOL_ACTIVE_SUFFIX ==
    <<"_", "N", "O", "D", "E", "_", "P", "O", "O", "L", "_", "A", "C", "T", "I", "V", "E">>

KUBERNETES_VERSION ==
    <<"K", "U", "B", "E", "R", "N", "E", "T", "E", "S", "_", "V", "E", "R", "S", "I", "O", "N">>

NodePoolInfix == <<"_", "N", "O", "D", "E", "_", "P", "O", "O", "L", "_">>

\* f"{label}_NODE_POOL_{slot}_KUBERNETES_VERSION"
SlotVersionKey(label, slot) == label \o NodePoolInfix \o slot \o <<"_">> \o KUBERNETES_VERSION

MAIN == <<"M", "A", "I", "N">>

ECK == <<"E", "C", "K">>

ActiveKey(label) == label \o NODE_POOL_ACTIVE_SUFFIX

MAIN_NODE_POOL_A_KUBERNETES_VERSION == SlotVersionKey(MAIN, <<"A">>)

MAIN_NODE_POOL_B_KUBERNETES_VERSION == SlotVersionKey(MAIN, <<"B">>)

----------------------------------------------------------------------------
(* The document: ruamel's ordered mapping *)

\* the layout of env.yaml: the order in which its keys are written
KeyOrder ==
    << KUBERNETES_VERSION,
       ActiveKey(MAIN), MAIN_NODE_POOL_A_KUBERNETES_VERSION, MAIN_NODE_POOL_B_KUBERNETES_VERSION,
       ActiveKey(ECK), SlotVersionKey(ECK, <<"A">>), SlotVersionKey(ECK, <<"B">>) >>

\* yaml_content[key] = value, key present
SetItem(y, key, value) == [y EXCEPT ![key] = value]

\* key.endswith(NODE_POOL_ACTIVE_SUFFIX), for each key of the layout
IsFlagKey == [i \in 1..Len(KeyOrder) |-> EndsWith(KeyOrder[i], NODE_POOL_ACTIVE_SUFFIX)]

\* key.replace(NODE_POOL_ACTIVE_SUFFIX, ""), for each key of the layout
LabelOfKey == [i \in 1..Len(KeyOrder) |-> Remove(KeyOrder[i], NODE_POOL_ACTIVE_SUFFIX)]

\* the places in the layout of the keys of y that end in _NODE_POOL_ACTIVE, in
\* document order: the keys the comprehension of get_active_pool_keys keeps
FlagKeys(y) ==
    SelectSeq([i \in 1..Len(KeyOrder) |-> i],
              LAMBDA i : KeyOrder[i] \in DOMAIN y /\ IsFlagKey[i])

\* dict insertion: a key already present keeps its place
AppendNew(before, k) ==
    IF \E i \in 1..Len(before) : before[i] = k THEN before ELSE Append(before, k)

\* the keys of a dict built by inserting ks[1..n] in turn
RECURSIVE InsertionOrder(_, _)
InsertionOrder(ks, n) ==
    IF n = 0 THEN <<>> ELSE AppendNew(InsertionOrder(ks, n - 1), ks[n])

\* the last of flagKeys whose label is l: the one whose value the dict keeps
LastFlag(flagKeys, l) ==
    CHOOSE i \in 1..Len(flagKeys) :
        /\ LabelOfKey[flagKeys[i]] = l
        /\ \A j \in (i + 1)..Len(flagKeys) : LabelOfKey[flagKeys[j]] # l

\* the dict of get_active_pool_keys from the flag keys of y
ActiveMap(y, flagKeys) ==
    [l \in {LabelOfKey[flagKeys[i]] : i \in 1..Len(flagKeys)} |->
        y[KeyOrder[flagKeys[LastFlag(flagKeys, l)]]]]

\* get_active_pool_keys: label -> value of its *_NODE_POOL_ACTIVE key
get_active_pool_keys(y) == ActiveMap(y, FlagKeys(y))

\* the labels of a dict built from flagKeys, in dict order
LabelsInOrder(flagKeys) ==
    InsertionOrder([i \in 1..Len(flagKeys) |-> LabelOfKey[flagKeys[i]]], Len(flagKeys))

\* the labels of get_active_pool_keys(y) in the order its items are iterated
ActiveLabels(y) == LabelsInOrder(FlagKeys(y))

\* a non-active slot that is the other of "a" and "b" and the flag itself for
\* any other value: the fault C16 must detect
NonActivePoolStrict(pool) ==
    IF pool = <<"a">> THEN <<"b">> ELSE IF pool = <<"b">> THEN <<"a">> ELSE pool

\* a non-active slot that is "b" whatever the flag: the fault C15 must detect
NonActivePoolAlwaysB(pool) == <<"b">>

\* "b" if pool == "a" else "a"
NonActivePool(pool) == IF pool = <<"a">> THEN <<"b">> ELSE <<"a">>

\* the key of the slot the upgrade writes for a group whose flag is pool
NonActiveKey(label, pool) == SlotVersionKey(label, Upper(NonActivePool(pool)))

\* an iteration that reads the slot key without testing for it, a KeyError
\* where the key is absent: the fault C11 must detect
UpdateSlotKeyError(st, pool, key, new_gke_version) ==
    IF pool = Null \/ key \notin DOMAIN st.content
    THEN [st EXCEPT !.raised = TRUE]
    ELSE IF st.content[key] # new_gke_version
    THEN [content |-> SetItem(st.content, key, new_gke_version),
          updated |-> TRUE, raised |-> FALSE]
    ELSE st

\* one iteration of the nodepool loop of update_gke_version_only, for a group
\* whose flag is pool and whose non-active slot key is key; st is [content,
\* updated, raised]
UpdateSlot(st, pool, key, new_gke_version) ==
    IF pool = Null
    THEN \* active[label].upper() on None: AttributeError
         [st EXCEPT !.raised = TRUE]
    ELSE IF key \in DOMAIN st.content /\ st.content[key] # new_gke_version
    THEN [content |-> SetItem(st.content, key, new_gke_version),
          updated |-> TRUE, raised |-> FALSE]
    ELSE st

\* the nodepool loop of update_gke_version_only from labels[i] on
RECURSIVE UpdateLoop(_, _, _, _, _)
UpdateLoop(labels, i, active, new_gke_version, st) ==
    IF i > Len(labels) \/ st.raised THEN st
    ELSE UpdateLoop(labels, i + 1, active, new_gke_version,
                    UpdateSlot(st, active[labels[i]],
                               NonActiveKey(labels[i], active[labels[i]]),
                               new_gke_version))

\* a control-plane step that writes without comparing: the fault C3 must detect
UpdateControlPlaneAlways(y, new_gke_version) ==
    [content |-> SetItem(y, KUBERNETES_VERSION, new_gke_version),
     updated |-> TRUE, raised |-> FALSE]

\* the control-plane step of update_gke_version_only; KUBERNETES_VERSION present
UpdateControlPlane(y, new_gke_version) ==
    IF y[KUBERNETES_VERSION] # new_gke_version
    THEN [content |-> SetItem(y, KUBERNETES_VERSION, new_gke_version),
          updated |-> TRUE, raised |-> FALSE]
    ELSE [content |-> y, updated |-> FALSE, raised |-> FALSE]

\* lines 138-170: the nodepools, after the control-plane step left st
UpdatePools(st, new_gke_version) ==
    UpdateLoop(ActiveLabels(st.content), 1, get_active_pool_keys(st.content),
               new_gke_version, st)

\* update_gke_version_only: [content, updated, raised]; raised when the call
\* ends in an exception (content is then what was mutated before it)
update_gke_version_only(y, new_gke_version) ==
    IF KUBERNETES_VERSION \notin DOMAIN y
    THEN [content |-> y, updated |-> FALSE, raised |-> TRUE]
    ELSE UpdatePools(UpdateControlPlane(y, new_gke_version), new_gke_version)

\* a switch that knows one direction only: the fault C9 must detect
SwitchValueOneWay(value) == IF value = <<"a">> THEN <<"b">> ELSE value

\* the new value switch_only_active_nodepools gives a *_NODE_POOL_ACTIVE key
SwitchValue(value) ==
    IF value = <<"a">> THEN <<"b">>
    ELSE IF value = <<"b">> THEN <<"a">>
    ELSE value

\* the keys of the layout that end in _NODE_POOL_ACTIVE
FlagKeySet == {KeyOrder[i] : i \in {j \in 1..Len(KeyOrder) : IsFlagKey[j]}}

\* switch_only_active_nodepools
switch_only_active_nodepools(y) ==
    [k \in DOMAIN y |-> IF k \in FlagKeySet THEN SwitchValue(y[k]) ELSE y[k]]

----------------------------------------------------------------------------
(* semver.version.Version, as current_gke_version uses it *)

\* the place of the first sep in s
FirstIndex(s, sep) == CHOOSE j \in 1..Len(s) : s[j] = sep /\ \A h \in 1..(j - 1) : s[h] # sep

\* s.split(sep): the parts of s between the occurrences of the character sep
RECURSIVE Split(_, _)
Split(s, sep) ==
    IF \A i \in 1..Len(s) : s[i] # sep THEN <<s>>
    ELSE <<SubSeq(s, 1, FirstIndex(s, sep) - 1)>>
         \o Split(SubSeq(s, FirstIndex(s, sep) + 1, Len(s)), sep)

\* int(s), s a sequence of digits
RECURSIVE ParseInt(_)
ParseInt(s) ==
    IF s = <<>> THEN 0
    ELSE ParseInt(SubSeq(s, 1, Len(s) - 1)) * 10 + (Ord(s[Len(s)]) - Ord("0"))

AllDigits(s) == s # <<>> /\ \A i \in 1..Len(s) : IsDigit(s[i])

\* 0|[1-9]\d*
IsNumericId(s) == AllDigits(s) /\ (Len(s) = 1 \/ s[1] # "0")

\* a prerelease identifier: 0|[1-9]\d*|\d*[a-zA-Z-][0-9a-zA-Z-]*
IsPrereleaseId(s) == s # <<>> /\ (AllDigits(s) => IsNumericId(s))

\* the text before the first "-" of a version, and the text after it
VersionCore(v) == Split(v, "-")[1]

VersionPrerelease(v) == SubSeq(v, Len(VersionCore(v)) + 2, Len(v))

\* the identifiers of a prerelease
PrereleaseIds(pre) == IF pre = <<>> THEN <<>> ELSE Split(pre, ".")

\* the version regex on the parts of the core and the prerelease
VersionShapeOk(parts, pre, hasPre) ==
    /\ Len(parts) = 3
    /\ \A i \in 1..3 : IsNumericId(parts[i])
    /\ hasPre => pre # <<>> /\ \A i \in DOMAIN PrereleaseIds(pre) : IsPrereleaseId(PrereleaseIds(pre)[i])

ParsedVersion(valid, parts, pre) ==
    [valid |-> valid,
     core |-> IF valid THEN [i \in 1..3 |-> ParseInt(parts[i])] ELSE <<0, 0, 0>>,
     prerelease |-> pre, ids |-> PrereleaseIds(pre)]

\* Version.parse(v): [valid, core, prerelease, ids]; valid is FALSE where parse
\* raises (None, or a text that is no semantic version); core is <<major,
\* minor, patch>>, ids the identifiers of the prerelease
VersionParse(v) ==
    IF v = Null THEN ParsedVersion(FALSE, <<>>, <<>>)
    ELSE ParsedVersion(VersionShapeOk(Split(VersionCore(v), "."), VersionPrerelease(v),
                                      Len(VersionCore(v)) < Len(v)),
                       Split(VersionCore(v), "."), VersionPrerelease(v))

\* cmp(a, b) of two integers
IntCmp(a, b) == IF a < b THEN -1 ELSE IF a > b THEN 1 ELSE 0

\* cmp(a, b) of two strings
StrCmp(a, b) == IF StrLess(a, b) THEN -1 ELSE IF StrLess(b, a) THEN 1 ELSE 0

\* cmp_prerelease_tag: numeric identifiers by value and below the others
PrereleaseTagCmp(a, b) ==
    IF AllDigits(a) /\ AllDigits(b) THEN IntCmp(ParseInt(a), ParseInt(b))
    ELSE IF AllDigits(a) THEN -1
    ELSE IF AllDigits(b) THEN 1
    ELSE StrCmp(a, b)

\* x if it decides the comparison, else y
OrElse(x, y) == IF x # 0 THEN x ELSE y

\* _nat_cmp of two parsed versions from identifier i on: the first pair that
\* differs decides, else the lengths of the prerelease texts
RECURSIVE NatCmpFrom(_, _, _)
NatCmpFrom(a, b, i) ==
    IF i > Len(a.ids) \/ i > Len(b.ids) THEN IntCmp(Len(a.prerelease), Len(b.prerelease))
    ELSE OrElse(PrereleaseTagCmp(a.ids[i], b.ids[i]), NatCmpFrom(a, b, i + 1))

\* cmp of the (major, minor, patch) tuples from component i on
RECURSIVE CoreCmpFrom(_, _, _)
CoreCmpFrom(a, b, i) ==
    IF i > 3 THEN 0 ELSE OrElse(IntCmp(a.core[i], b.core[i]), CoreCmpFrom(a, b, i + 1))

\* the end of Version.compare, rccmp being _nat_cmp of the prereleases: a
\* release is above its prereleases
PrereleaseCmp(a, b, rccmp) ==
    IF rccmp = 0 THEN 0
    ELSE IF a.prerelease = <<>> THEN 1
    ELSE IF b.prerelease = <<>> THEN -1
    ELSE rccmp

\* Version.compare of two parsed versions
VersionCompare(a, b) == OrElse(CoreCmpFrom(a, b, 1), PrereleaseCmp(a, b, NatCmpFrom(a, b, 1)))

\* max keeps best unless keys[n] is greater
Better(keys, best, n) == IF VersionCompare(keys[n], keys[best]) > 0 THEN n ELSE best

\* max(vs, key=Version.parse): the index of the first greatest of keys[1..n]
RECURSIVE MaxByVersion(_, _)
MaxByVersion(keys, n) == IF n = 1 THEN 1 ELSE Better(keys, MaxByVersion(keys, n - 1), n)

\* highest.split(".")[0] + "." + highest.split(".")[1]
MinorOf(v) == Split(v, ".")[1] \o <<".">> \o Split(v, ".")[2]

\* the keys current_gke_version reads
VersionKeys ==
    << KUBERNETES_VERSION, MAIN_NODE_POOL_A_KUBERNETES_VERSION,
       MAIN_NODE_POOL_B_KUBERNETES_VERSION >>

\* a current_gke_version that looks at the control plane only: the fault C13
\* must detect
MinorOfControlPlane(y, keys) ==
    IF \E i \in 1..3 : ~keys[i].valid THEN [raised |-> TRUE, minor |-> Null]
    ELSE [raised |-> FALSE, minor |-> MinorOf(y[KUBERNETES_VERSION])]

\* lines 105-115, keys being Version.parse of the three values
MinorOfHighest(y, keys) ==
    IF \E i \in 1..3 : ~keys[i].valid THEN [raised |-> TRUE, minor |-> Null]
    ELSE [raised |-> FALSE, minor |-> MinorOf(y[VersionKeys[MaxByVersion(keys, 3)]])]

\* current_gke_version: [raised, minor]; raised on a missing key (KeyError) and
\* on a value Version.parse rejects
current_gke_version(y) ==
    IF \E i \in 1..3 : VersionKeys[i] \notin DOMAIN y THEN [raised |-> TRUE, minor |-> Null]
    ELSE MinorOfHighest(y, [i \in 1..3 |-> VersionParse(y[VersionKeys[i]])])

----------------------------------------------------------------------------
(* The release-notes feed and latest_gke_version *)

\* A feed is [ok, entries]: ok is FALSE when requests.get or the XML parse
\* raises.  An entry's content is [prose, links]: links are the texts of its
\* <a href=...> elements in document order, prose is the rest of its text.

\* minor_version in content
EntryMentions(entry, minor_version) ==
    \/ Contains(entry.prose, minor_version)
    \/ \E i \in 1..Len(entry.links) : Contains(entry.links[i], minor_version)

\* the elements of a list
Range(seq) == {seq[i] : i \in 1..Len(seq)}

\* the greatest string of S
Top(S) == CHOOSE x \in S : \A z \in S : ~StrLess(x, z)

\* sorted(S, reverse=True) of a set of strings
RECURSIVE SortedReverse(_)
SortedReverse(S) == IF S = {} THEN <<>> ELSE <<Top(S)>> \o SortedReverse(S \ {Top(S)})

\* unique_values = sorted(list(set(re.findall(...))), reverse=True)
UniqueValues(entry) == SortedReverse(Range(entry.links))

\* latest_gke_versions = sorted([v for v in unique_values if minor_version in v], reverse=True)
LatestGkeVersions(entry, minor_version) ==
    SortedReverse(Range(SelectSeq(UniqueValues(entry), LAMBDA v : Contains(v, minor_version))))

\* the result of latest_gke_version: the version returned (Null for None), the
\* index of the entry it was taken from (0 for none) and whether the log line
\* names it "Second to latest"
Resolved(version, at, second) ==
    [raised |-> FALSE, version |-> version, at |-> at, second |-> second]

\* lines 72-78: entry i is looked into; vs is its latest_gke_versions
EntryTaken(entry, minor_version, latest, first_match_found, vs) ==
    EntryMentions(entry, minor_version) /\ (first_match_found \/ latest) /\ vs # <<>>

\* the loop over the feed's entries from entry i on
RECURSIVE ScanEntries(_, _, _, _, _)
ScanEntries(entries, i, minor_version, latest, first_match_found) ==
    IF i > Len(entries) THEN Resolved(Null, 0, FALSE)
    ELSE IF EntryTaken(entries[i], minor_version, latest, first_match_found,
                       LatestGkeVersions(entries[i], minor_version))
    THEN Resolved(LatestGkeVersions(entries[i], minor_version)[1], i,
                  first_match_found /\ ~latest)
    ELSE ScanEntries(entries, i + 1, minor_version, latest,
                     IF EntryMentions(entries[i], minor_version)
                        /\ ~(first_match_found \/ latest)
                     THEN TRUE ELSE first_match_found)

\* latest_gke_version: [raised, version, at, second]
latest_gke_version(feed, minor_version, latest) ==
    IF ~feed.ok THEN [raised |-> TRUE, version |-> Null, at |-> 0, second |-> FALSE]
    ELSE ScanEntries(feed.entries, 1, minor_version, latest, FALSE)

----------------------------------------------------------------------------
(* The values the model draws its inputs from *)

\* a value no variable of the program holds: "not computed in this invocation"
Unset == <<"unset">>

V1_27_8 == <<"1", ".", "2", "7", ".", "8", "-", "g", "k", "e", ".", "1">>

V1_27_9 == <<"1", ".", "2", "7", ".", "9", "-", "g", "k", "e", ".", "1">>

V1_27_10 == <<"1", ".", "2", "7", ".", "1", "0", "-", "g", "k", "e", ".", "1">>

V1_27_11 == <<"1", ".", "2", "7", ".", "1", "1", "-", "g", "k", "e", ".", "1">>

V1_27_12 == <<"1", ".", "2", "7", ".", "1", "2", "-", "g", "k", "e", ".", "1">>

V1_28_1 == <<"1", ".", "2", "8", ".", "1", "-", "g", "k", "e", ".", "1">>

Minor1_27 == <<"1", ".", "2", "7">>

Minor1_28 == <<"1", ".", "2", "8">>

MinorBad == <<"1", ".", "x">>

\* the newest batch: 1.27.12 twice and 1.27.11
EntryNew == [prose |-> <<>>, links |-> <<V1_27_12, V1_27_11, V1_27_12>>]

\* the batch before it: 1.27.10, 1.27.9 and a 1.28 build
EntryPrev == [prose |-> <<>>, links |-> <<V1_27_10, V1_28_1, V1_27_9>>]

\* an entry whose text names 1.27 while its links hold a 1.28 build only
EntryProse == [prose |-> Minor1_27, links |-> <<V1_28_1>>]

\* an entry without links that names no family
EntryOther == [prose |-> <<>>, links |-> <<>>]

\* the sequences over S of length at most n
SeqsUpTo(S, n) == UNION {[1..m -> S] : m \in 0..n}

FeedDown == [ok |-> FALSE, entries |-> <<>>]

\* the feeds an invocation of main may meet
MainFeeds ==
    {FeedDown} \cup
    {[ok |-> TRUE, entries |-> e] : e \in SeqsUpTo({EntryNew, EntryPrev}, MaxFeed)}

\* the feeds latest_gke_version is tried on alone
CatFeeds ==
    {FeedDown} \cup
    {[ok |-> TRUE, entries |-> e] :
        e \in SeqsUpTo({EntryNew, EntryPrev, EntryProse, EntryOther}, MaxCatFeed)}

\* the command lines: every combination of the flags on an existing file, a
\* malformed -m with and without --switch-active-only, and a missing file
ArgsSet ==
    [exists : {TRUE}, switch : BOOLEAN, image : {Null, V1_27_11},
     minor : {Null, Minor1_27}, latest : BOOLEAN]
    \cup [exists : {TRUE}, switch : BOOLEAN, image : {Null}, minor : {MinorBad},
          latest : {FALSE}]
    \cup [exists : {FALSE}, switch : {FALSE}, image : {V1_27_11}, minor : {Null},
          latest : {FALSE}]

\* whether main, given args, can get as far as the feed
MayFetch(args) == args.exists /\ ~args.switch /\ args.image = Null /\ args.minor # MinorBad

\* the feeds tried with args: every feed where main may fetch it, else a
\* well-stocked one
FeedsFor(args) ==
    IF MayFetch(args) THEN MainFeeds
    ELSE {[ok |-> TRUE, entries |-> <<EntryNew, EntryPrev>>]}

\* the place of key k in the layout
KeyIndex(k) == CHOOSE i \in 1..Len(KeyOrder) : KeyOrder[i] = k

\* a document from the values of its keys; Unset marks a key the document lacks
Document(values) ==
    [k \in {KeyOrder[i] : i \in {j \in 1..Len(KeyOrder) : values[j] # Unset}} |->
        values[KeyIndex(k)]]

\* the documents a behaviour starts from: the main flag a, b, c, A and null
\* beside an ECK flag b, a document without the main pool's slot-b version key
\* and a document without KUBERNETES_VERSION
InitFiles ==
    {Document(<<V1_27_8, mf, V1_27_8, V1_27_8, <<"b">>, V1_27_8, V1_27_8>>) :
        mf \in {<<"a">>, <<"b">>, <<"c">>, <<"A">>, Null}}
    \cup {Document(<<V1_27_8, <<"a">>, V1_27_8, Unset, <<"a">>, V1_27_8, V1_27_8>>)}
    \cup {Document(<<Unset, <<"a">>, V1_27_8, V1_27_8, <<"b">>, V1_27_8, V1_27_8>>)}

----------------------------------------------------------------------------
(* main *)

\* re.match(r"\d+\.\d+", minor): digits, a dot, a digit, at the start of minor
MinorFormatOk(minor) ==
    \E i \in 1..Len(minor) :
        /\ i + 2 <= Len(minor)
        /\ \A j \in 1..i : IsDigit(minor[j])
        /\ minor[i + 1] = "."
        /\ IsDigit(minor[i + 2])

\* the end of an invocation: exit status, the document on disk, the number of
\* save_yaml calls, the number of feed fetches, new_gke_version (Unset where
\* none was chosen), the value update_gke_version_only returned and the
\* document in memory (the one on disk where main ends before load_yaml)
Outcome(exit, disk, writes, feedCalls, target, updated, mem) ==
    [exit |-> exit, disk |-> disk, writes |-> writes, feedCalls |-> feedCalls,
     target |-> target, updated |-> updated, mem |-> mem]

\* latest_gke_version, its results for the feeds and the family of the model
\* computed once
FetchMemo ==
    [q \in MainFeeds \X {Minor1_27} \X BOOLEAN |-> latest_gke_version(q[1], q[2], q[3])]

Fetch(feed, minor_version, latest) ==
    IF <<feed, minor_version, latest>> \in MainFeeds \X {Minor1_27} \X BOOLEAN
    THEN FetchMemo[<<feed, minor_version, latest>>]
    ELSE latest_gke_version(feed, minor_version, latest)

\* a main that saves whatever update_gke_version_only returned: the fault C12
\* must detect
AppliedAlwaysSave(disk, new_gke_version, feedCalls, u) ==
    IF u.raised THEN Outcome(1, disk, 0, feedCalls, new_gke_version, FALSE, u.content)
    ELSE Outcome(0, u.content, 1, feedCalls, new_gke_version, u.updated, u.content)

\* lines 255-260, u being what update_gke_version_only(yaml_content,
\* new_gke_version) did: save_yaml when it returned True, exit(1) when it raised
Applied(disk, new_gke_version, feedCalls, u) ==
    IF u.raised THEN Outcome(1, disk, 0, feedCalls, new_gke_version, FALSE, u.content)
    ELSE IF u.updated THEN Outcome(0, u.content, 1, feedCalls, new_gke_version, TRUE, u.content)
    ELSE Outcome(0, disk, 0, feedCalls, new_gke_version, FALSE, u.content)

\* an upgrade that also swaps the slots: the fault C4 must detect
ApplyAndSwitch(disk, new_gke_version, feedCalls) ==
    Applied(disk, new_gke_version, feedCalls,
            update_gke_version_only(switch_only_active_nodepools(disk), new_gke_version))

\* lines 255-257 for the version new_gke_version
Apply(disk, new_gke_version, feedCalls) ==
    Applied(disk, new_gke_version, feedCalls,
            update_gke_version_only(disk, new_gke_version))

\* lines 247 and 251-253 followed by 255-257, r being what latest_gke_version did
ApplyResolved(disk, r) ==
    IF r.raised THEN Outcome(1, disk, 0, 1, Unset, FALSE, disk)
    ELSE Apply(disk, r.version, 1)

\* lines 250-253, c being what current_gke_version(yaml_content) did
ApplyDefault(disk, feed, latest, c) ==
    IF c.raised THEN Outcome(1, disk, 0, 0, Unset, FALSE, disk)
    ELSE ApplyResolved(disk, Fetch(feed, c.minor, latest))

\* lines 235-241, switched being the document after switch_only_active_nodepools
Switched(switched) == Outcome(0, switched, 1, 0, Unset, FALSE, switched)

\* a switch-only mode that gives way to a version flag: the fault C10 must detect
SwitchOnlyUnlessVersion(args) == args.switch /\ args.image = Null /\ args.minor = Null

\* line 235: if args.switch_active_only
SwitchOnly(args) == args.switch

\* a main that looks an exact version's family up in the feed instead of using
\* the version as given: the fault C14 must detect
MainImageThroughCatalog(disk, args, feed) ==
    IF ~args.exists
    THEN Outcome(1, disk, 0, 0, Unset, FALSE, disk)
    ELSE IF args.minor # Null /\ ~MinorFormatOk(args.minor)
    THEN Outcome(1, disk, 0, 0, Unset, FALSE, disk)
    ELSE IF args.switch
    THEN Switched(switch_only_active_nodepools(disk))
    ELSE IF args.image # Null /\ (args.minor # Null \/ args.latest)
    THEN Outcome(2, disk, 0, 0, Unset, FALSE, disk)
    ELSE IF args.minor # Null
    THEN ApplyResolved(disk, Fetch(feed, args.minor, args.latest))
    ELSE IF args.image # Null
    THEN ApplyResolved(disk, Fetch(feed, MinorOf(args.image), args.latest))
    ELSE ApplyDefault(disk, feed, args.latest, current_gke_version(disk))

\* main(): args is [exists, switch, image, minor, latest]; disk is the document
\* at args.env_file; feed is what the feed URL serves
Main(disk, args, feed) ==
    IF ~args.exists
    THEN Outcome(1, disk, 0, 0, Unset, FALSE, disk)
    ELSE IF args.minor # Null /\ ~MinorFormatOk(args.minor)
    THEN Outcome(1, disk, 0, 0, Unset, FALSE, disk)
    ELSE IF SwitchOnly(args)
    THEN Switched(switch_only_active_nodepools(disk))
    ELSE IF args.image # Null /\ (args.minor # Null \/ args.latest)
    THEN Outcome(2, disk, 0, 0, Unset, FALSE, disk)
    ELSE IF args.minor # Null
    THEN ApplyResolved(disk, Fetch(feed, args.minor, args.latest))
    ELSE IF args.image # Null
    THEN Apply(disk, args.image, 0)
    ELSE ApplyDefault(disk, feed, args.latest, current_gke_version(disk))

----------------------------------------------------------------------------
(* The state machine: the document on disk and the invocations of the tool *)

\* inv: the last invocation, [args, feed, pre] and its Outcome; feed is the feed
\* it fetched (FeedDown where it fetched none), pre the document on disk when
\* it started.  runs counts the invocations.  cat: the last call of
\* latest_gke_version made on its own.
NoArgs == [exists |-> FALSE, switch |-> FALSE, image |-> Null, minor |-> Null, latest |-> FALSE]

Invocation(args, feed, pre, out) ==
    [args |-> args, feed |-> IF out.feedCalls > 0 THEN feed ELSE FeedDown, pre |-> pre,
     exit |-> out.exit, writes |-> out.writes, feedCalls |-> out.feedCalls,
     target |-> out.target, updated |-> out.updated, mem |-> out.mem]

NoCat == [feed |-> FeedDown, minor |-> Minor1_27, latest |-> FALSE,
          out |-> [raised |-> TRUE, version |-> Null, at |-> 0, second |-> FALSE]]

Init ==
    /\ file \in InitFiles
    /\ inv = Invocation(NoArgs, FeedDown, file, Outcome(1, file, 0, 0, Unset, FALSE, file))
    /\ runs = 0
    /\ cat = NoCat

\* the state after an invocation that ended as out
Ended(args, feed, out) ==
    /\ file' = out.disk
    /\ inv' = Invocation(args, feed, file, out)

\* one invocation of main with the command line args against the feed
Invoke(args, feed) ==
    /\ runs < MaxRuns
    /\ Ended(args, feed, Main(file, args, feed))
    /\ runs' = runs + 1
    /\ UNCHANGED cat

\* gke-upgrade-tool <env_file> --switch-active-only [...]
SwitchActiveOnly ==
    \E args \in ArgsSet : \E feed \in FeedsFor(args) :
        args.switch /\ Invoke(args, feed)

\* gke-upgrade-tool <env_file> -i <version> [...]
UpgradeImage ==
    \E args \in ArgsSet : \E feed \in FeedsFor(args) :
        ~args.switch /\ args.image # Null /\ Invoke(args, feed)

\* gke-upgrade-tool <env_file> -m <minor> [-l]
UpgradeMinor ==
    \E args \in ArgsSet : \E feed \in FeedsFor(args) :
        ~args.switch /\ args.image = Null /\ args.minor # Null /\ Invoke(args, feed)

\* gke-upgrade-tool <env_file> [-l]
UpgradeDefault ==
    \E args \in ArgsSet : \E feed \in FeedsFor(args) :
        ~args.switch /\ args.image = Null /\ args.minor = Null /\ Invoke(args, feed)

Next == SwitchActiveOnly \/ UpgradeImage \/ UpgradeMinor \/ UpgradeDefault

Spec == Init /\ [][Next]_vars

----------------------------------------------------------------------------
(* latest_gke_version on its own: one call on a feed *)

CatInit ==
    /\ file = Document(<<V1_27_8, <<"a">>, V1_27_8, V1_27_8, <<"b">>, V1_27_8, V1_27_8>>)
    /\ inv = Invocation(NoArgs, FeedDown, file, Outcome(1, file, 0, 0, Unset, FALSE, file))
    /\ runs = 0
    /\ cat = NoCat

\* latest_gke_version(minor_version, latest) while the feed URL serves feed
Resolve(feed, minor_version, latest) ==
    /\ runs = 0
    /\ cat' = [feed |-> feed, minor |-> minor_version, latest |-> latest,
               out |-> latest_gke_version(feed, minor_version, latest)]
    /\ runs' = 1
    /\ UNCHANGED <<file, inv>>

\* latest_gke_version(minor_version, latest=True)
ResolveLatest == \E feed \in CatFeeds, m \in {Minor1_27, Minor1_28} : Resolve(feed, m, TRUE)

\* latest_gke_version(minor_version)
ResolvePrevious == \E feed \in CatFeeds, m \in {Minor1_27, Minor1_28} : Resolve(feed, m, FALSE)

CatNext == ResolveLatest \/ ResolvePrevious

SpecCatalog == CatInit /\ [][CatNext]_vars

----------------------------------------------------------------------------
(* The default path of main on its own: lines 250-253 on a document *)

V1_9_3 == <<"1", ".", "9", ".", "3", "-", "g", "k", "e", ".", "1">>

V1_10_2 == <<"1", ".", "1", "0", ".", "2", "-", "g", "k", "e", ".", "1">>

\* documents whose control plane and main slots run 1.9, 1.10 or 1.27 builds
\* beside an ECK group at 1.27 or 1.28
CurFiles ==
    {Document(<<cp, <<"a">>, ma, mb, <<"b">>, eck, eck>>) :
        cp \in {V1_9_3, V1_10_2, V1_27_8},
        ma \in {V1_9_3, V1_10_2, V1_27_8},
        mb \in {V1_9_3, V1_10_2, V1_27_8},
        eck \in {V1_27_8, V1_28_1}}

CurInit ==
    /\ file \in CurFiles
    /\ inv = Invocation(NoArgs, FeedDown, file, Outcome(1, file, 0, 0, Unset, FALSE, file))
    /\ runs = 0
    /\ cat = NoCat

\* latest_gke_version(current_gke_version(yaml_content), args.latest), c being
\* what current_gke_version did
ResolveCurrent(feed, latest, c) ==
    /\ runs = 0
    /\ ~c.raised
    /\ cat' = [feed |-> feed, minor |-> c.minor, latest |-> latest,
               out |-> latest_gke_version(feed, c.minor, latest)]
    /\ runs' = 1
    /\ UNCHANGED <<file, inv>>

\* gke-upgrade-tool <env_file> -l, up to the call of latest_gke_version
DefaultLatest ==
    \E feed \in FeedsFor(NoArgs) \cup {FeedDown} :
        ResolveCurrent(feed, TRUE, current_gke_version(file))

\* gke-upgrade-tool <env_file>, up to the call of latest_gke_version
DefaultPrevious ==
    \E feed \in FeedsFor(NoArgs) \cup {FeedDown} :
        ResolveCurrent(feed, FALSE, current_gke_version(file))

CurNext == DefaultLatest \/ DefaultPrevious

SpecCurrent == CurInit /\ [][CurNext]_vars

----------------------------------------------------------------------------
(* The staged upgrade: upgrade, switch, upgrade, and the upgrade once more *)

\* documents with both slot keys of both groups, flags "a" or "b", each version
\* the old build or the first target
StagedFiles ==
    {Document(<<cp, mf, ma, mb, ef, ea, eb>>) :
        cp \in {V1_27_8, V1_27_11}, mf \in {<<"a">>, <<"b">>},
        ma \in {V1_27_8, V1_27_11}, mb \in {V1_27_8, V1_27_11},
        ef \in {<<"a">>, <<"b">>},
        ea \in {V1_27_8, V1_27_11}, eb \in {V1_27_8, V1_27_11}}

StagedInit ==
    /\ file \in StagedFiles
    /\ inv = Invocation(NoArgs, FeedDown, file, Outcome(1, file, 0, 0, Unset, FALSE, file))
    /\ runs = 0
    /\ cat = NoCat

\* the command line <env_file> -i v
ImageArgs(v) ==
    [exists |-> TRUE, switch |-> FALSE, image |-> v, minor |-> Null, latest |-> FALSE]

\* the command line <env_file> --switch-active-only
SwitchArgs ==
    [exists |-> TRUE, switch |-> TRUE, image |-> Null, minor |-> Null, latest |-> FALSE]

\* the invocation of main with args as step number n + 1 of the sequence
StagedStep(n, args) ==
    /\ runs = n
    /\ Ended(args, FeedDown, Main(file, args, FeedDown))
    /\ runs' = n + 1
    /\ UNCHANGED cat

\* gke-upgrade-tool <env_file> -i v
StagedFirstUpgrade == \E v \in {V1_27_11, V1_27_12} : StagedStep(0, ImageArgs(v))

\* gke-upgrade-tool <env_file> --switch-active-only
StagedSwitch == StagedStep(1, SwitchArgs)

\* gke-upgrade-tool <env_file> -i v again: v is the version the control plane
\* is at since the first upgrade
StagedSecondUpgrade == StagedStep(2, ImageArgs(file[KUBERNETES_VERSION]))

\* gke-upgrade-tool <env_file> -i v a third time
StagedThirdUpgrade == StagedStep(3, ImageArgs(file[KUBERNETES_VERSION]))

StagedNext ==
    StagedFirstUpgrade \/ StagedSwitch \/ StagedSecondUpgrade \/ StagedThirdUpgrade

SpecStaged == StagedInit /\ [][StagedNext]_vars

----------------------------------------------------------------------------
(* The claims *)

\* the *_NODE_POOL_ACTIVE keys of y
FlagKeysOf(y) == DOMAIN y \cap FlagKeySet

\* every *_NODE_POOL_ACTIVE value of y is "a" or "b"
AllAB(y) == \A k \in FlagKeysOf(y) : y[k] \in {<<"a">>, <<"b">>}

\* the last invocation called update_gke_version_only
Upgraded == inv.target # Unset

\* the version key of the slot a group's flag names
ActiveSlotKey(label, pool) == SlotVersionKey(label, Upper(pool))

\* the keys the upgrade of y may write, active being y's groups and flags
UpgradeTargets(active) ==
    {KUBERNETES_VERSION} \cup {NonActiveKey(l, active[l]) : l \in DOMAIN active}

\* the values of the version keys of y's active slots are those of z
ActiveSlotsKept(y, z, active) ==
    \A l \in DOMAIN active :
        ActiveSlotKey(l, active[l]) \in DOMAIN y =>
            z[ActiveSlotKey(l, active[l])] = y[ActiveSlotKey(l, active[l])]

\* C1: update_gke_version_only changes no key other than KUBERNETES_VERSION and
\* each group's non-active slot key, and the version key of the active slot of
\* every group has the same value after the upgrade as before.
C1_UpgradeWritesOnlyNonActiveSlots ==
    Upgraded =>
        /\ DOMAIN inv.mem = DOMAIN inv.pre
        /\ \A k \in DOMAIN inv.pre :
              inv.mem[k] # inv.pre[k] => k \in UpgradeTargets(get_active_pool_keys(inv.pre))
        /\ ActiveSlotsKept(inv.pre, inv.mem, get_active_pool_keys(inv.pre))
        /\ ActiveSlotsKept(inv.pre, file, get_active_pool_keys(inv.pre))

\* C2: when latest_gke_version returns nothing, the invocation is fatal: the
\* configuration is not mutated, no null version is put into it, the file is
\* not written and the exit status is not zero.
C2_ResolutionFailureIsFatal ==
    (inv.feedCalls > 0 /\ inv.target = Null) =>
        /\ inv.exit # 0
        /\ inv.writes = 0
        /\ inv.mem = inv.pre
        /\ file = inv.pre

\* C3: once an upgrade to a version has been applied, applying the upgrade with
\* the same version to the resulting configuration reports no change, leaves
\* the configuration identical and does not write the file.
C3_UpgradeIdempotent ==
    (Upgraded /\ inv.exit = 0) =>
        /\ file = inv.mem
        /\ update_gke_version_only(file, inv.target) =
              [content |-> file, updated |-> FALSE, raised |-> FALSE]
        /\ Apply(file, inv.target, 0).writes = 0
        /\ Apply(file, inv.target, 0).disk = file

\* a second invocation with the same exact version on the upgraded file: it
\* changed nothing and wrote nothing
C3_Witness ==
    /\ runs = 2
    /\ ~inv.args.switch /\ inv.args.image = V1_27_11
    /\ inv.exit = 0 /\ ~inv.updated /\ inv.writes = 0
    /\ file = inv.pre
    /\ KUBERNETES_VERSION \in DOMAIN file
    /\ file[KUBERNETES_VERSION] = V1_27_11

\* C4: an invocation without --switch-active-only never changes the value of a
\* *_NODE_POOL_ACTIVE key, in memory or on disk.
C4_UpgradeKeepsActiveFlags ==
    ~inv.args.switch =>
        /\ DOMAIN file = DOMAIN inv.pre
        /\ \A k \in FlagKeysOf(inv.pre) : file[k] = inv.pre[k] /\ inv.mem[k] = inv.pre[k]

\* an upgrade that rewrote the file of a cluster whose main group runs slot b
C4_Witness ==
    /\ runs > 0
    /\ ~inv.args.switch /\ inv.updated /\ inv.writes = 1
    /\ file # inv.pre
    /\ inv.pre[ActiveKey(MAIN)] = <<"b">>

\* the places of the entries whose text contains the family, in feed order
MatchingEntries(entries, minor_version) ==
    SelectSeq([i \in 1..Len(entries) |-> i],
              LAMBDA i : EntryMentions(entries[i], minor_version))

\* the matching entry the result is to be taken from: the first with
\* wantAbsoluteLatest, the second without
RequiredMatch(latest) == IF latest THEN 1 ELSE 2

\* the version tokens of an entry that match the family
FamilyTokens(entry, minor_version) ==
    {v \in Range(entry.links) : Contains(v, minor_version)}

\* the feed of the last call holds the entry the result is to be taken from
HasRequiredMatch ==
    Len(MatchingEntries(cat.feed.entries, cat.minor)) >= RequiredMatch(cat.latest)

\* that entry
RequiredEntry ==
    cat.feed.entries[MatchingEntries(cat.feed.entries, cat.minor)[RequiredMatch(cat.latest)]]

\* C5: the result of latest_gke_version is the greatest, in plain string order,
\* family-matching token of the first entry that contains the family (latest)
\* or of the second such entry (otherwise).
C5_ResultFromRequiredBatch ==
    (runs = 1 /\ cat.feed.ok) =>
        /\ (HasRequiredMatch /\ FamilyTokens(RequiredEntry, cat.minor) # {}) =>
              cat.out.version = Top(FamilyTokens(RequiredEntry, cat.minor))
        /\ cat.out.version # Null =>
              /\ HasRequiredMatch
              /\ FamilyTokens(RequiredEntry, cat.minor) # {}
              /\ cat.out.version = Top(FamilyTokens(RequiredEntry, cat.minor))

\* C6: latest_gke_version returns nothing when fewer matching entries exist
\* than required, or when the required entry holds no token of the family;
\* later entries are not used.
C6_NoResultWithoutRequiredBatch ==
    (runs = 1 /\ cat.feed.ok
       /\ (HasRequiredMatch => FamilyTokens(RequiredEntry, cat.minor) = {})) =>
        /\ ~cat.out.raised
        /\ cat.out.version = Null

\* C7: an invocation given both --image and --minor, whatever its other flags,
\* fails before the feed is fetched and before the file is touched.
C7_ImageWithMinorFails ==
    (inv.args.exists /\ inv.args.image # Null /\ inv.args.minor # Null) =>
        /\ inv.exit # 0
        /\ inv.feedCalls = 0
        /\ inv.writes = 0
        /\ file = inv.pre

\* the fatal conditions of an invocation: missing file, malformed or
\* conflicting input, feed failure, resolution failure, a key the default path
\* needs missing
FatalError ==
    \/ ~inv.args.exists
    \/ inv.args.minor # Null /\ ~MinorFormatOk(inv.args.minor)
    \/ inv.args.image # Null /\ inv.args.minor # Null
    \/ inv.feedCalls > 0 /\ ~inv.feed.ok
    \/ inv.feedCalls > 0 /\ inv.target = Null
    \/ /\ ~inv.args.switch /\ inv.args.image = Null /\ inv.args.minor = Null
       /\ \E i \in 1..Len(VersionKeys) : VersionKeys[i] \notin DOMAIN inv.pre

\* C8: no invocation that ends in a fatal error writes the file, and an
\* invocation writes the file at most once.
C8_FatalNeverWrites ==
    /\ inv.writes <= 1
    /\ (inv.exit # 0 \/ FatalError) => (inv.writes = 0 /\ file = inv.pre)

\* C9: switch_only_active_nodepools applied twice gives the configuration back;
\* where every flag is "a" or "b" it flips every flag; and an invocation that
\* starts with every flag "a" or "b" ends so.
C9_SwitchInvolution ==
    /\ switch_only_active_nodepools(switch_only_active_nodepools(file)) = file
    /\ AllAB(file) =>
          \A k \in FlagKeysOf(file) :
              /\ switch_only_active_nodepools(file)[k] \in {<<"a">>, <<"b">>}
              /\ switch_only_active_nodepools(file)[k] # file[k]
    /\ AllAB(inv.pre) => AllAB(file)
    /\ (inv.args.switch /\ inv.exit = 0) =>
          switch_only_active_nodepools(file) = inv.pre

\* a switch after an upgrade: the main group went from slot b back to slot a
C9_Witness ==
    /\ runs = 2
    /\ inv.args.switch /\ inv.exit = 0
    /\ AllAB(inv.pre)
    /\ inv.pre[ActiveKey(MAIN)] = <<"b">> /\ file[ActiveKey(MAIN)] = <<"a">>
    /\ inv.pre[ActiveKey(ECK)] = <<"a">> /\ file[ActiveKey(ECK)] = <<"b">>

\* C10: an invocation with --switch-active-only, whatever its other flags,
\* never fetches the feed and never chooses a version; KUBERNETES_VERSION and
\* the slot version keys keep their values, only *_NODE_POOL_ACTIVE keys change.
C10_SwitchOnlySkipsVersionLogic ==
    inv.args.switch =>
        /\ inv.feedCalls = 0
        /\ inv.target = Unset
        /\ DOMAIN file = DOMAIN inv.pre
        /\ \A k \in DOMAIN inv.pre \ FlagKeySet : file[k] = inv.pre[k]

\* a switch-only invocation that also carried -i and -m and rewrote the file
C10_Witness ==
    /\ inv.args.switch /\ inv.args.image # Null /\ inv.args.minor # Null
    /\ inv.exit = 0 /\ inv.writes = 1
    /\ file # inv.pre

\* the groups of y whose non-active slot version key y lacks
MissingSlots(y, active) ==
    {l \in DOMAIN active : NonActiveKey(l, active[l]) \notin DOMAIN y}

\* the keys of the upgrade's targets that y holds have the value v in z
TargetsAt(y, z, active, v) ==
    \A k \in UpgradeTargets(active) \cap DOMAIN y : z[k] = v

\* C11: when a group's non-active slot version key is absent, the upgrade does
\* not create it and does not fail: the keys of the configuration are the
\* same, and the control plane and the non-active slots of the other groups
\* are at the target version, in memory and on disk.
C11_MissingSlotKeyNotFatal ==
    (Upgraded /\ MissingSlots(inv.pre, get_active_pool_keys(inv.pre)) # {}) =>
        /\ inv.exit = 0
        /\ DOMAIN inv.mem = DOMAIN inv.pre
        /\ DOMAIN file = DOMAIN inv.pre
        /\ TargetsAt(inv.pre, inv.mem, get_active_pool_keys(inv.pre), inv.target)
        /\ TargetsAt(inv.pre, file, get_active_pool_keys(inv.pre), inv.target)

\* an upgrade of a document without the main group's slot-b key: the control
\* plane and the ECK group's slot b were written, the key was not created
C11_Witness ==
    /\ Upgraded /\ inv.updated /\ inv.writes = 1
    /\ inv.target = V1_27_11
    /\ inv.pre[ActiveKey(MAIN)] = <<"a">>
    /\ MAIN_NODE_POOL_B_KUBERNETES_VERSION \notin DOMAIN inv.pre
    /\ MAIN_NODE_POOL_B_KUBERNETES_VERSION \notin DOMAIN file
    /\ inv.pre[SlotVersionKey(ECK, <<"B">>)] = V1_27_8
    /\ file[SlotVersionKey(ECK, <<"B">>)] = V1_27_11
    /\ file[KUBERNETES_VERSION] = V1_27_11

\* the control-plane value of y or the value of an existing non-active slot
\* key of y differs from v
NeedsChange(y, active, v) == \E k \in UpgradeTargets(active) \cap DOMAIN y : y[k] # v

\* what C12 says of an invocation that called update_gke_version_only:
\* changed is true exactly when a value differed from the target, and then
\* the configuration differs; the file is saved exactly when changed is true
WrittenIffChanged ==
    /\ inv.updated <=> NeedsChange(inv.pre, get_active_pool_keys(inv.pre), inv.target)
    /\ inv.updated <=> inv.mem # inv.pre
    /\ inv.writes = 1 <=> inv.updated
    /\ file = inv.mem

\* C12 as stated: in upgrade mode the file is written if and only if the apply
\* step changed something, changed being true exactly when the control-plane
\* value or an existing non-active slot value differed from the target.
C12_WrittenIffChanged == Upgraded => WrittenIffChanged

\* C12 amended: the same, for the invocations in which update_gke_version_only
\* returns; where it raises (no KUBERNETES_VERSION key, a flag value that is
\* no string) the invocation fails and the file is left as it was, whatever
\* differed and whatever was already changed in memory.
C12_WrittenIffChangedOnReturn ==
    Upgraded =>
        /\ inv.writes = 1 <=> inv.updated
        /\ inv.exit = 0 => WrittenIffChanged
        /\ inv.exit # 0 => (~inv.updated /\ inv.writes = 0 /\ file = inv.pre)

\* an upgrade on the default path to the version the feed resolved: changed,
\* and saved once
C12_Witness ==
    /\ Upgraded /\ inv.exit = 0
    /\ inv.feedCalls = 1 /\ inv.args.minor = Null /\ inv.target = V1_27_9
    /\ NeedsChange(inv.pre, get_active_pool_keys(inv.pre), inv.target)
    /\ inv.updated /\ inv.writes = 1
    /\ file = inv.mem /\ file # inv.pre

\* major, minor and patch of a version as numbers
CoreNumbers(v) == [i \in 1..3 |-> ParseInt(Split(VersionCore(v), ".")[i])]

\* (major, minor, patch) of a is at most that of b, compared as numbers
CoreLeq(a, b) ==
    \/ a[1] < b[1]
    \/ a[1] = b[1] /\ a[2] < b[2]
    \/ a[1] = b[1] /\ a[2] = b[2] /\ a[3] <= b[3]

\* y with both slot versions of the ECK group set to v
WithEckAt(y, v) ==
    [k \in DOMAIN y |->
        IF k \in {SlotVersionKey(ECK, <<"A">>), SlotVersionKey(ECK, <<"B">>)} THEN v ELSE y[k]]

\* C13: on the default path the family passed to latest_gke_version is the
\* first two dot-separated components of the greatest, by numeric comparison
\* of major, minor and patch, of KUBERNETES_VERSION and the two slot versions
\* of the MAIN group; the versions of the other groups do not influence it.
C13_DefaultFamilyFromMainMax ==
    runs = 1 =>
        /\ \E i \in 1..3 :
              /\ \A j \in 1..3 : CoreLeq(CoreNumbers(file[VersionKeys[j]]),
                                         CoreNumbers(file[VersionKeys[i]]))
              /\ cat.minor = MinorOf(file[VersionKeys[i]])
        /\ \A v \in {V1_9_3, V1_27_8, V1_28_1} :
              current_gke_version(WithEckAt(file, v)).minor = cat.minor

\* the family 1.10 taken from slot b of the main group, where the greatest
\* string is the control plane's 1.9 build and the ECK group runs 1.28
C13_Witness ==
    /\ runs = 1
    /\ file[KUBERNETES_VERSION] = V1_9_3
    /\ file[MAIN_NODE_POOL_A_KUBERNETES_VERSION] = V1_9_3
    /\ file[MAIN_NODE_POOL_B_KUBERNETES_VERSION] = V1_10_2
    /\ file[SlotVersionKey(ECK, <<"A">>)] = V1_28_1
    /\ cat.minor = <<"1", ".", "1", "0">>

\* the last invocation was given an exact version and nothing else
ImageOnly ==
    /\ inv.args.exists /\ ~inv.args.switch
    /\ inv.args.image # Null /\ inv.args.minor = Null /\ ~inv.args.latest

\* main on the document the last invocation started from, with its command
\* line, ends the same way whatever the feed serves
SameOutcomeOnEveryFeed ==
    \A feed \in MainFeeds :
        /\ Main(inv.pre, inv.args, feed).disk = file
        /\ Main(inv.pre, inv.args, feed).exit = inv.exit
        /\ Main(inv.pre, inv.args, feed).feedCalls = 0
        /\ Main(inv.pre, inv.args, feed).target = inv.args.image

\* C14: when only an exact version is supplied, the version applied is that
\* string as given and the feed is never fetched, so the outcome is the same
\* for every content of the feed and when the feed is unreachable.
C14_ImageVerbatimNoFeed ==
    ImageOnly =>
        /\ inv.target = inv.args.image
        /\ inv.feedCalls = 0
        /\ SameOutcomeOnEveryFeed
        /\ (inv.exit = 0 /\ KUBERNETES_VERSION \in DOMAIN file) =>
              file[KUBERNETES_VERSION] = inv.args.image

\* -i 1.27.11-gke.1 on a cluster at 1.27.8 whose main group runs slot a: the
\* control plane and slot b are at 1.27.11-gke.1, slot a is as it was
C14_Witness ==
    /\ ImageOnly /\ inv.args.image = V1_27_11
    /\ inv.exit = 0 /\ inv.updated /\ inv.writes = 1 /\ inv.feedCalls = 0
    /\ inv.pre[ActiveKey(MAIN)] = <<"a">>
    /\ inv.pre[KUBERNETES_VERSION] = V1_27_8
    /\ MAIN_NODE_POOL_B_KUBERNETES_VERSION \in DOMAIN file
    /\ file[KUBERNETES_VERSION] = V1_27_11
    /\ file[MAIN_NODE_POOL_B_KUBERNETES_VERSION] = V1_27_11
    /\ file[MAIN_NODE_POOL_A_KUBERNETES_VERSION] = V1_27_8

\* KUBERNETES_VERSION and every slot version key of y hold v
AllVersionsAt(y, v) == \A k \in DOMAIN y \ FlagKeySet : y[k] = v

\* the version keys of the slots that were active before the switch, active
\* being the groups and flags after it
FormerlyActiveKeys(active) ==
    {ActiveSlotKey(l, SwitchValue(active[l])) : l \in DOMAIN active}

\* C15: from a configuration whose flags are all "a" or "b" and that holds
\* both slot keys of every group, upgrade(v), switch-active-only, upgrade(v)
\* ends with KUBERNETES_VERSION and both slot versions of every group at v;
\* the second upgrade writes only slots that were active before the switch;
\* a third upgrade(v) changes nothing.
C15_StagedUpgradeConverges ==
    /\ runs = 1 => (inv.exit = 0 /\ file[KUBERNETES_VERSION] = inv.target)
    /\ runs = 2 => (inv.exit = 0 /\ file[KUBERNETES_VERSION] = inv.pre[KUBERNETES_VERSION])
    /\ runs = 3 =>
          /\ inv.exit = 0
          /\ inv.target = inv.pre[KUBERNETES_VERSION]
          /\ AllVersionsAt(file, inv.target)
          /\ \A k \in DOMAIN file :
                file[k] # inv.pre[k] =>
                    k \in FormerlyActiveKeys(get_active_pool_keys(inv.pre))
    /\ runs = 4 =>
          /\ inv.exit = 0 /\ ~inv.updated /\ inv.writes = 0
          /\ file = inv.pre
          /\ AllVersionsAt(file, inv.target)

\* the end of the sequence for the target 1.27.12: every version is at the
\* target and the third upgrade found nothing to do
C15_Witness ==
    /\ runs = 4
    /\ inv.target = V1_27_12
    /\ AllVersionsAt(file, V1_27_12)
    /\ ~inv.updated /\ inv.writes = 0
    /\ file[ActiveKey(MAIN)] = <<"b">>

\* the slot version keys of group l
SlotA(l) == SlotVersionKey(l, <<"A">>)

SlotB(l) == SlotVersionKey(l, <<"B">>)

\* z holds v at key k where y has the key
WrittenAt(y, z, k, v) == k \in DOMAIN y => z[k] = v

\* z holds at key k what y holds, where y has the key
KeptAt(y, z, k) == k \in DOMAIN y => z[k] = y[k]

\* no *_NODE_POOL_ACTIVE value of y other than "a" and "b" is changed by
\* switch_only_active_nodepools
SwitchKeepsOtherFlags(y) ==
    \A k \in FlagKeysOf(y) :
        y[k] \notin {<<"a">>, <<"b">>} => switch_only_active_nodepools(y)[k] = y[k]

\* C16 as stated: for a group whose flag is neither "a" nor "b" the upgrade
\* overwrites the slot-A version key, when present, with the target version,
\* and switch_only_active_nodepools leaves the flag as it is.
C16_OtherFlagUpgradesSlotA ==
    /\ SwitchKeepsOtherFlags(file)
    /\ (Upgraded /\ KUBERNETES_VERSION \in DOMAIN inv.pre) =>
          \A l \in DOMAIN get_active_pool_keys(inv.pre) :
              get_active_pool_keys(inv.pre)[l] \notin {<<"a">>, <<"b">>} =>
                  WrittenAt(inv.pre, inv.mem, SlotA(l), inv.target)

\* what the upgrade did to group l whose flag is the string pool: slot b
\* written and slot a kept where pool is "a", slot a written and slot b kept
\* for every other string
SlotChosenByFlag(l, pool) ==
    IF pool = <<"a">>
    THEN /\ WrittenAt(inv.pre, inv.mem, SlotB(l), inv.target)
         /\ KeptAt(inv.pre, inv.mem, SlotA(l))
    ELSE /\ WrittenAt(inv.pre, inv.mem, SlotA(l), inv.target)
         /\ KeptAt(inv.pre, inv.mem, SlotB(l))

\* C16 amended: the non-active slot is "b" exactly when the flag equals "a"
\* and "a" for every other string, so for a string flag other than "a" and "b"
\* the upgrade overwrites the slot-A version key; where a flag is null the
\* upgrade raises before it writes a slot and the file is left as it was;
\* switch_only_active_nodepools leaves every flag other than "a" and "b".
C16_StringFlagChoosesSlot ==
    /\ SwitchKeepsOtherFlags(file)
    /\ (inv.args.switch /\ inv.exit = 0) =>
          \A k \in FlagKeysOf(inv.pre) :
              inv.pre[k] \notin {<<"a">>, <<"b">>} => file[k] = inv.pre[k]
    /\ (Upgraded /\ KUBERNETES_VERSION \in DOMAIN inv.pre) =>
          IF \E l \in DOMAIN get_active_pool_keys(inv.pre) :
                 get_active_pool_keys(inv.pre)[l] = Null
          THEN inv.exit = 1 /\ inv.writes = 0 /\ file = inv.pre
          ELSE /\ inv.exit = 0
               /\ file = inv.mem
               /\ \A l \in DOMAIN get_active_pool_keys(inv.pre) :
                     SlotChosenByFlag(l, get_active_pool_keys(inv.pre)[l])

\* an upgrade of a document whose main flag is "c": slot a of the main group
\* went from the old build to the target and the file was saved
C16_Witness ==
    /\ Upgraded /\ inv.exit = 0 /\ inv.writes = 1
    /\ inv.pre[ActiveKey(MAIN)] = <<"c">>
    /\ inv.target = V1_27_11
    /\ inv.pre[SlotA(MAIN)] = V1_27_8
    /\ file[SlotA(MAIN)] = V1_27_11
    /\ file[SlotB(MAIN)] = V1_27_8
    /\ file[ActiveKey(MAIN)] = <<"c">>

====
